---- MODULE Spec2Model ----
(***************************************************************************)
(* The include resolver of build.js (processIncludes, parseAttributes) and *)
(* the page driver around it, as a state machine.                          *)
(*                                                                         *)
(* A text is a sequence of one-character strings, so the three regular     *)
(* expressions of the source are modelled character by character.          *)
(***************************************************************************)
EXTENDS Integers, Sequences, FiniteSets, TLC

VARIABLES
    variant,        \* which build script runs: "build" (src/build.js) or "part000" (src/unnamed/part_000)
    pc,             \* position of the driver / of processIncludes; "threw": an exception unwound past the call
    html,           \* the argument html of the current processIncludes call
    processedHtml,  \* the local processedHtml
    prov,           \* history: for each character of processedHtml, the file it came from and the pass that spliced it in
    depth,          \* the local depth
    includesFoundInPass, \* the local includesFoundInPass
    passes,         \* history: number of String.replace sweeps done in this call
    prevHtml,       \* history: processedHtml as it was before the most recent sweep
    events,         \* history: one record per directive matched by the most recent sweep
    reads,          \* history: every file lookup of this call
    result,         \* the value returned by the call
    via,            \* which return statement returned it
    errorLogged,    \* console.error was called by this call
    calls,          \* number of pages the driver has handed to processIncludes
    written,        \* the driver's outputs so far: the pairs <<page text, text written>>
    exitCode,       \* the exit status of the build process: 0 until process.exit(1)
    parsePc,        \* position of a direct parseAttributes call: "off", "idle", "called", "returned"
    parseInput,     \* the argument attrString of that call
    parseOutput     \* the object the call returned

vars == <<variant, pc, html, processedHtml, prov, depth, includesFoundInPass,
          passes, prevHtml, events, reads, result, via, errorLogged,
          calls, written, exitCode, parsePc, parseInput, parseOutput>>

\* the variables of a direct parseAttributes call
parseVars == <<parsePc, parseInput, parseOutput>>

-----------------------------------------------------------------------------
(* Character classes of the regular expressions *)

\* \s  (the ASCII part of it)
Whitespace == {" ", "\t", "\n", "\r", "\f"}

\* \w
WordChar ==
    {"a","b","c","d","e","f","g","h","i","j","k","l","m","n","o","p","q","r",
     "s","t","u","v","w","x","y","z",
     "A","B","C","D","E","F","G","H","I","J","K","L","M","N","O","P","Q","R",
     "S","T","U","V","W","X","Y","Z",
     "0","1","2","3","4","5","6","7","8","9","_"}

Quote == "\""

\* the literal lit stands in t at index i
LiteralAt(t, i, lit) ==
    /\ i >= 1
    /\ i + Len(lit) - 1 <= Len(t)
    /\ \A k \in 1..Len(lit) : t[i + k - 1] = lit[k]

\* const v = value; Body(v): the value is computed once and then used
With(value, Body(_)) == CHOOSE r \in {Body(v) : v \in {value}} : TRUE

\* a greedy run of a class: the first index >= i whose character is not in S
RECURSIVE SkipWhile(_, _, _)
SkipWhile(t, i, S) ==
    IF i > Len(t) \/ t[i] \notin S THEN i
    ELSE With(i + 1, LAMBDA next : SkipWhile(t, next, S))

\* a greedy run of a negated class [^c]: the first index >= i holding c
RECURSIVE SkipUntil(_, _, _)
SkipUntil(t, i, c) ==
    IF i > Len(t) \/ t[i] = c THEN i
    ELSE With(i + 1, LAMBDA next : SkipUntil(t, next, c))

Slice(t, a, b) == IF a > b THEN << >> ELSE SubSeq(t, a, b)

\* the least element of a set of indices, 0 for the empty set
LeastOf(S) == IF S = {} THEN 0 ELSE CHOOSE j \in S : \A k \in S : j <= k

Least(S) == With(S, LAMBDA indices : LeastOf(indices))

\* String.prototype.trim
Trim(t) ==
    Slice(t, SkipWhile(t, 1, Whitespace),
          Least({j \in 0..Len(t) : \A k \in (j + 1)..Len(t) : t[k] \in Whitespace}))

-----------------------------------------------------------------------------
\* includeRegex tried at index i: the literal <include, one or more \s, the
\* literal src=", one or more non-quote characters (group 1), a quote, any
\* number of characters other than > (group 2), an optional slash, and >.
\* Every quantifier is followed by a character outside its class, so the
\* greedy match is the only one; group 2 takes a trailing slash and the
\* optional slash then matches nothing.

kInclude == <<"<", "i", "n", "c", "l", "u", "d", "e">>
kSrcEq == <<"s", "r", "c", "=", "\"">>

\* no match at i
includeRegexNone(i) ==
    [ok |-> FALSE, start |-> i, end |-> i, src |-> << >>, attrsString |-> << >>]

\* the match at i once the runs are measured: b ends the \s run, d is the
\* quote that ends group 1, e is the > that ends the match
includeRegexAt(t, i, b, d, e) ==
    LET a == i + Len(kInclude)
        c == b + Len(kSrcEq)
        ok == /\ LiteralAt(t, i, kInclude)
              /\ b > a
              /\ LiteralAt(t, b, kSrcEq)
              /\ d > c
              /\ d <= Len(t)
              /\ e <= Len(t)
    IN IF ok
       THEN [ok |-> TRUE, start |-> i, end |-> e,
             src |-> Slice(t, c, d - 1), attrsString |-> Slice(t, d + 1, e - 1)]
       ELSE includeRegexNone(i)

includeRegex(t, i) ==
    IF ~LiteralAt(t, i, kInclude) THEN includeRegexNone(i)
    ELSE With(SkipWhile(t, i + Len(kInclude), Whitespace),
              LAMBDA b :
                  With(SkipUntil(t, b + Len(kSrcEq), Quote),
                       LAMBDA d :
                           With(SkipUntil(t, d + 1, ">"),
                                LAMBDA e : includeRegexAt(t, i, b, d, e))))

\* the text holds an include directive
HasInclude(t) == \E i \in 1..Len(t) : includeRegex(t, i).ok

\* the scan of a global replace: the leftmost index >= i where includeRegex
\* matches, 0 when there is none
nextInclude(t, i) == Least({j \in i..Len(t) : includeRegex(t, j).ok})

\* the placeholder expression tried at index i: two opening braces, any \s,
\* one or more \w (group 1), any \s, two closing braces
kOpen2 == <<"{", "{">>
kClose2 == <<"}", "}">>

\* no match at i
placeholderRegexNone(i) == [ok |-> FALSE, start |-> i, end |-> i, varName |-> << >>]

\* the match at i once the runs are measured: b ends the first \s run, c
\* ends group 1, d ends the second \s run
placeholderRegexAt(t, i, b, c, d) ==
    LET ok == /\ LiteralAt(t, i, kOpen2)
              /\ c > b
              /\ LiteralAt(t, d, kClose2)
    IN IF ok
       THEN [ok |-> TRUE, start |-> i, end |-> d + 1, varName |-> Slice(t, b, c - 1)]
       ELSE placeholderRegexNone(i)

placeholderRegex(t, i) ==
    IF ~LiteralAt(t, i, kOpen2) THEN placeholderRegexNone(i)
    ELSE With(SkipWhile(t, i + 2, Whitespace),
              LAMBDA b :
                  With(SkipWhile(t, b, WordChar),
                       LAMBDA c :
                           With(SkipWhile(t, c, Whitespace),
                                LAMBDA d : placeholderRegexAt(t, i, b, c, d))))

HasPlaceholder(t) == \E i \in 1..Len(t) : placeholderRegex(t, i).ok

\* the leftmost index >= i where the placeholder expression matches, or 0
nextPlaceholder(t, i) == Least({j \in i..Len(t) : placeholderRegex(t, j).ok})

\* the attribute expression of parseAttributes tried at index i: one or more
\* \w (group 1), the literal =", one or more non-quote characters (group 2),
\* a quote
\* the match at i once the runs are measured: c ends group 1, d is the quote
\* that ends group 2
attrRegexAt(s, i, c, d) ==
    LET ok == /\ i >= 1
              /\ c > i
              /\ LiteralAt(s, c, <<"=", "\"">>)
              /\ d > c + 2
              /\ d <= Len(s)
    IN IF ok
       THEN [ok |-> TRUE, end |-> d, key |-> Slice(s, i, c - 1), value |-> Slice(s, c + 2, d - 1)]
       ELSE [ok |-> FALSE, end |-> i, key |-> << >>, value |-> << >>]

attrRegex(s, i) ==
    With(SkipWhile(s, i, WordChar),
         LAMBDA c :
             With(SkipUntil(s, c + 2, Quote),
                  LAMBDA d : attrRegexAt(s, i, c, d)))

\* regex.exec(attrString) with lastIndex = i - 1: the leftmost index >= i
\* where the attribute expression matches, or 0 (exec returns null)
nextAttr(s, i) == Least({j \in i..Len(s) : attrRegex(s, j).ok})

-----------------------------------------------------------------------------
\* parseAttributes and the attribute object

\* const attributes = {}: an object with no own property.  It still inherits
\* the properties of Object.prototype, which attributes[varName] reads.
EmptyAttributes == [k \in {} |-> << >>]

kFunction == <<"f", "u", "n", "c", "t", "i", "o", "n", " ">>
kNative == <<"(", ")", " ", "{", " ", "[", "n", "a", "t", "i", "v", "e", " ", "c", "o", "d", "e", "]", " ", "}">>
kProto == <<"_", "_", "p", "r", "o", "t", "o", "_", "_">>
kObject == <<"O", "b", "j", "e", "c", "t">>
kObjectObject == <<"[", "o", "b", "j", "e", "c", "t", " ", "O", "b", "j", "e", "c", "t", "]">>

\* the function-valued properties every object inherits from Object.prototype
InheritedFunctions ==
    {<<"c", "o", "n", "s", "t", "r", "u", "c", "t", "o", "r">>,
     <<"t", "o", "S", "t", "r", "i", "n", "g">>,
     <<"v", "a", "l", "u", "e", "O", "f">>,
     <<"t", "o", "L", "o", "c", "a", "l", "e", "S", "t", "r", "i", "n", "g">>,
     <<"h", "a", "s", "O", "w", "n", "P", "r", "o", "p", "e", "r", "t", "y">>,
     <<"i", "s", "P", "r", "o", "t", "o", "t", "y", "p", "e", "O", "f">>,
     <<"p", "r", "o", "p", "e", "r", "t", "y", "I", "s", "E", "n", "u", "m", "e", "r", "a", "b", "l", "e">>,
     <<"_", "_", "d", "e", "f", "i", "n", "e", "G", "e", "t", "t", "e", "r", "_", "_">>,
     <<"_", "_", "d", "e", "f", "i", "n", "e", "S", "e", "t", "t", "e", "r", "_", "_">>,
     <<"_", "_", "l", "o", "o", "k", "u", "p", "G", "e", "t", "t", "e", "r", "_", "_">>,
     <<"_", "_", "l", "o", "o", "k", "u", "p", "S", "e", "t", "t", "e", "r", "_", "_">>}

\* String(({})[name]) for an inherited name: a function prints as its source,
\* the constructor is the function Object, and __proto__ is Object.prototype
InheritedText(name) ==
    IF name = kProto THEN kObjectObject
    ELSE kFunction \o (IF name = <<"c", "o", "n", "s", "t", "r", "u", "c", "t", "o", "r">> THEN kObject ELSE name) \o kNative

\* attributes[match[1]] = match[2]: an own property, except that assigning a
\* string to __proto__ runs the inherited setter, which ignores it
SetAttribute(attributes, key, value) ==
    IF key = kProto THEN attributes
    ELSE [k \in (DOMAIN attributes) \cup {key} |-> IF k = key THEN value ELSE attributes[k]]

\* the while loop over regex.exec: lastIndex = i - 1, attributes so far
RECURSIVE parseAttributesLoop(_, _, _)

\* the loop body for one match
parseAttributesMatch(attrString, match, attributes) ==
    With(SetAttribute(attributes, match.key, match.value),
         LAMBDA assigned : parseAttributesLoop(attrString, match.end + 1, assigned))

\* the loop test: j is where exec matched, 0 for null
parseAttributesExec(attrString, j, attributes) ==
    IF j = 0 THEN attributes
    ELSE With(attrRegex(attrString, j),
              LAMBDA match : parseAttributesMatch(attrString, match, attributes))

parseAttributesLoop(attrString, i, attributes) ==
    With(nextAttr(attrString, i),
         LAMBDA j : parseAttributesExec(attrString, j, attributes))

\* a parseAttributes whose attributes object outlives the call: it starts from
\* the pairs of the directive resolved last in the previous sweep
parseAttributesShared(attrString) ==
    parseAttributesLoop(attrString, 1,
        IF events = << >> THEN EmptyAttributes ELSE events[Len(events)].attributes)

parseAttributes(attrString) == parseAttributesLoop(attrString, 1, EmptyAttributes)

\* attributes[varName] || '' as the replacement string: an own value is a
\* non-empty string; an inherited property is truthy and is printed;
\* undefined gives ''
AttributeOrEmpty(attributes, varName) ==
    IF varName \in DOMAIN attributes THEN attributes[varName]
    ELSE IF varName = kProto \/ varName \in InheritedFunctions THEN InheritedText(varName)
    ELSE << >>

-----------------------------------------------------------------------------
\* Paths.  A path is the sequence of its segments below the file system root.

\* path.join(__dirname, 'src', 'components'), with __dirname the root
componentsDir == <<<<"s", "r", "c">>, <<"c", "o", "m", "p", "o", "n", "e", "n", "t", "s">>>>

\* the segments of a string between its slashes
RECURSIVE SplitPath(_, _, _, _)
SplitPath(s, i, cur, acc) ==
    IF i > Len(s) THEN Append(acc, cur)
    ELSE IF s[i] = "/" THEN SplitPath(s, i + 1, << >>, Append(acc, cur))
    ELSE SplitPath(s, i + 1, Append(cur, s[i]), acc)

\* path.normalize of an absolute path: empty and "." segments drop out, ".."
\* removes the segment before it and is dropped at the root
RECURSIVE NormalizePath(_, _, _)
NormalizePath(segs, i, acc) ==
    IF i > Len(segs) THEN acc
    ELSE IF segs[i] = << >> \/ segs[i] = <<".">> THEN NormalizePath(segs, i + 1, acc)
    ELSE IF segs[i] = <<".", ".">>
         THEN NormalizePath(segs, i + 1, IF acc = << >> THEN acc ELSE SubSeq(acc, 1, Len(acc) - 1))
    ELSE NormalizePath(segs, i + 1, Append(acc, segs[i]))

\* path.join(dir, src)
PathJoin(dir, src) == NormalizePath(dir \o SplitPath(src, 1, << >>, << >>), 1, << >>)

\* path.dirname
Dirname(path) == IF path = << >> THEN path ELSE SubSeq(path, 1, Len(path) - 1)

-----------------------------------------------------------------------------
\* The component library on disk: the files below componentsDir.  A cycle of
\* one (self) and of two (p, q), a chain c0 .. c11 of twelve levels, a
\* subdirectory with a file named like one of the root, and no nope.html.

Files == <<
    [path |-> componentsDir \o <<<<"x", ".", "h", "t", "m", "l">>>>,
     text |-> <<"H", "e", "l", "l", "o", " ", "{", "{", " ", "n", "a", "m", "e", " ", "}", "}", "!">>],
    [path |-> componentsDir \o <<<<"h", "i", ".", "h", "t", "m", "l">>>>,
     text |-> <<"H", "i", " ", "{", "{", " ", "m", "i", "s", "s", "i", "n", "g", " ", "}", "}", "!">>],
    [path |-> componentsDir \o <<<<"A", ".", "h", "t", "m", "l">>>>,
     text |-> <<"<", "i", "n", "c", "l", "u", "d", "e", " ", "s", "r", "c", "=", "\"", "B", ".", "h", "t", "m", "l", "\"", " ", "x", "=", "\"", "1", "\"", "/", ">">>],
    [path |-> componentsDir \o <<<<"B", ".", "h", "t", "m", "l">>>>,
     text |-> <<"v", "a", "l", "=", "{", "{", "x", "}", "}">>],
    [path |-> componentsDir \o <<<<"s", "e", "l", "f", ".", "h", "t", "m", "l">>>>,
     text |-> <<"s", "<", "i", "n", "c", "l", "u", "d", "e", " ", "s", "r", "c", "=", "\"", "s", "e", "l", "f", ".", "h", "t", "m", "l", "\"", "/", ">">>],
    [path |-> componentsDir \o <<<<"p", ".", "h", "t", "m", "l">>>>,
     text |-> <<"<", "i", "n", "c", "l", "u", "d", "e", " ", "s", "r", "c", "=", "\"", "q", ".", "h", "t", "m", "l", "\"", "/", ">">>],
    [path |-> componentsDir \o <<<<"q", ".", "h", "t", "m", "l">>>>,
     text |-> <<"<", "i", "n", "c", "l", "u", "d", "e", " ", "s", "r", "c", "=", "\"", "p", ".", "h", "t", "m", "l", "\"", " ", "/", ">">>],
    [path |-> componentsDir \o <<<<"c", "0", ".", "h", "t", "m", "l">>>>,
     text |-> <<"<", "i", "n", "c", "l", "u", "d", "e", " ", "s", "r", "c", "=", "\"", "c", "1", ".", "h", "t", "m", "l", "\"", "/", ">">>],
    [path |-> componentsDir \o <<<<"c", "1", ".", "h", "t", "m", "l">>>>,
     text |-> <<"<", "i", "n", "c", "l", "u", "d", "e", " ", "s", "r", "c", "=", "\"", "c", "2", ".", "h", "t", "m", "l", "\"", "/", ">">>],
    [path |-> componentsDir \o <<<<"c", "2", ".", "h", "t", "m", "l">>>>,
     text |-> <<"<", "i", "n", "c", "l", "u", "d", "e", " ", "s", "r", "c", "=", "\"", "c", "3", ".", "h", "t", "m", "l", "\"", "/", ">">>],
    [path |-> componentsDir \o <<<<"c", "3", ".", "h", "t", "m", "l">>>>,
     text |-> <<"<", "i", "n", "c", "l", "u", "d", "e", " ", "s", "r", "c", "=", "\"", "c", "4", ".", "h", "t", "m", "l", "\"", "/", ">">>],
    [path |-> componentsDir \o <<<<"c", "4", ".", "h", "t", "m", "l">>>>,
     text |-> <<"<", "i", "n", "c", "l", "u", "d", "e", " ", "s", "r", "c", "=", "\"", "c", "5", ".", "h", "t", "m", "l", "\"", "/", ">">>],
    [path |-> componentsDir \o <<<<"c", "5", ".", "h", "t", "m", "l">>>>,
     text |-> <<"<", "i", "n", "c", "l", "u", "d", "e", " ", "s", "r", "c", "=", "\"", "c", "6", ".", "h", "t", "m", "l", "\"", "/", ">">>],
    [path |-> componentsDir \o <<<<"c", "6", ".", "h", "t", "m", "l">>>>,
     text |-> <<"<", "i", "n", "c", "l", "u", "d", "e", " ", "s", "r", "c", "=", "\"", "c", "7", ".", "h", "t", "m", "l", "\"", "/", ">">>],
    [path |-> componentsDir \o <<<<"c", "7", ".", "h", "t", "m", "l">>>>,
     text |-> <<"<", "i", "n", "c", "l", "u", "d", "e", " ", "s", "r", "c", "=", "\"", "c", "8", ".", "h", "t", "m", "l", "\"", "/", ">">>],
    [path |-> componentsDir \o <<<<"c", "8", ".", "h", "t", "m", "l">>>>,
     text |-> <<"<", "i", "n", "c", "l", "u", "d", "e", " ", "s", "r", "c", "=", "\"", "c", "9", ".", "h", "t", "m", "l", "\"", "/", ">">>],
    [path |-> componentsDir \o <<<<"c", "9", ".", "h", "t", "m", "l">>>>,
     text |-> <<"<", "i", "n", "c", "l", "u", "d", "e", " ", "s", "r", "c", "=", "\"", "c", "1", "0", ".", "h", "t", "m", "l", "\"", "/", ">">>],
    [path |-> componentsDir \o <<<<"c", "1", "0", ".", "h", "t", "m", "l">>>>,
     text |-> <<"<", "i", "n", "c", "l", "u", "d", "e", " ", "s", "r", "c", "=", "\"", "c", "1", "1", ".", "h", "t", "m", "l", "\"", "/", ">">>],
    [path |-> componentsDir \o <<<<"c", "1", "1", ".", "h", "t", "m", "l">>>>,
     text |-> <<"k">>],
    [path |-> componentsDir \o <<<<"s", "u", "b">>, <<"n", "a", "v", ".", "h", "t", "m", "l">>>>,
     text |-> <<"<", "i", "n", "c", "l", "u", "d", "e", " ", "s", "r", "c", "=", "\"", "B", ".", "h", "t", "m", "l", "\"", " ", "x", "=", "\"", "2", "\"", "/", ">">>],
    [path |-> componentsDir \o <<<<"s", "u", "b">>, <<"B", ".", "h", "t", "m", "l">>>>,
     text |-> <<"s", "u", "b", "=", "{", "{", "x", "}", "}">>],
    [path |-> componentsDir \o <<<<"p", "r", "o", "t", "o", ".", "h", "t", "m", "l">>>>,
     text |-> <<"[", "{", "{", "c", "o", "n", "s", "t", "r", "u", "c", "t", "o", "r", "}", "}", "]">>],
    [path |-> componentsDir \o <<<<"t", "w", "o", ".", "h", "t", "m", "l">>>>,
     text |-> <<"{", "{", "a", "}", "}", "-", "{", "{", " ", "b", " ", "}", "}">>],
    [path |-> componentsDir \o <<<<"o", "u", "t", "e", "r", ".", "h", "t", "m", "l">>>>,
     text |-> <<"<", "i", "n", "c", "l", "u", "d", "e", " ", "s", "r", "c", "=", "\"", "t", "w", "o", ".", "h", "t", "m", "l", "\"", " ", "a", "=", "\"", "1", "\"", "/", ">">>],
    [path |-> componentsDir \o <<<<"m", "k", ".", "h", "t", "m", "l">>>>,
     text |-> <<"<", "i", "n", "c", "l", "{", "{", "z", "}", "}", "u", "d", "e", " ", "s", "r", "c", "=", "\"", "B", ".", "h", "t", "m", "l", "\"", " ", "x", "=", "\"", "3", "\"", "/", ">">>],
    [path |-> componentsDir \o <<<<"s", "m", ".", "h", "t", "m", "l">>>>,
     text |-> <<"<", "i", "n", "c", "l", "u", "d", "e", " ", "s", "r", "c", "=", "\"", "n", "o", "p", "e", ".", "h", "t", "m", "l", "\"", "/", ">", "<", "i", "n", "c", "l", "u", "d", "e", " ", "s", "r", "c", "=", "\"", "s", "m", ".", "h", "t", "m", "l", "\"", "/", ">">>]
>>

\* the index of a path among files, 0 when there is no such file
IndexOfPath(files, path) == Least({k \in 1..Len(files) : files[k].path = path})

FileId(path) == IndexOfPath(Files, path)

\* the file of index id of the library
ReadIndex(files, id) ==
    IF id = 0 THEN [threw |-> TRUE, text |-> << >>]
    ELSE [threw |-> FALSE, text |-> files[id].text]

\* fs.readFileSync(filePath, 'utf8'): the text, or a throw (ENOENT)
readFileSync(filePath) == ReadIndex(Files, FileId(filePath))

-----------------------------------------------------------------------------
\* The pages handed to processIncludes

PagePlain ==
    <<" ", "h", "e", "l", "l", "o", " ">>
PageTopLevelVariable ==
    <<"H", "i", " ", "{", "{", " ", "n", "a", "m", "e", " ", "}", "}">>
PageSingle ==
    <<"<", "i", "n", "c", "l", "u", "d", "e", " ", "s", "r", "c", "=", "\"", "x", ".", "h", "t", "m", "l", "\"", " ", "n", "a", "m", "e", "=", "\"", "B", "o", "b", "\"", " ", "/", ">">>
PageMissing ==
    <<"a", "<", "i", "n", "c", "l", "u", "d", "e", " ", "s", "r", "c", "=", "\"", "n", "o", "p", "e", ".", "h", "t", "m", "l", "\"", "/", ">", "b">>
PageMissingAmongOthers ==
    <<"{", "{", "t", "}", "}", "<", "i", "n", "c", "l", "u", "d", "e", " ", "s", "r", "c", "=", "\"", "n", "o", "p", "e", ".", "h", "t", "m", "l", "\"", "/", ">", "-", "<", "i", "n", "c", "l", "u", "d", "e", " ", "s", "r", "c", "=", "\"", "x", ".", "h", "t", "m", "l", "\"", " ", "n", "a", "m", "e", "=", "\"", "A", "l", "\"", ">">>
PageNested ==
    <<"<", "i", "n", "c", "l", "u", "d", "e", " ", "s", "r", "c", "=", "\"", "A", ".", "h", "t", "m", "l", "\"", "/", ">">>
PageNestedInText ==
    <<"a", "b", "<", "i", "n", "c", "l", "u", "d", "e", " ", "s", "r", "c", "=", "\"", "A", ".", "h", "t", "m", "l", "\"", "/", ">", "c", "d">>
PageSelfCycle ==
    <<"<", "i", "n", "c", "l", "u", "d", "e", " ", "s", "r", "c", "=", "\"", "s", "e", "l", "f", ".", "h", "t", "m", "l", "\"", "/", ">">>
PageTwoCycle ==
    <<"<", "i", "n", "c", "l", "u", "d", "e", " ", "s", "r", "c", "=", "\"", "p", ".", "h", "t", "m", "l", "\"", "/", ">">>
PageChain12 ==
    <<"<", "i", "n", "c", "l", "u", "d", "e", " ", "s", "r", "c", "=", "\"", "c", "0", ".", "h", "t", "m", "l", "\"", "/", ">">>
PageChain11 ==
    <<"<", "i", "n", "c", "l", "u", "d", "e", " ", "s", "r", "c", "=", "\"", "c", "1", ".", "h", "t", "m", "l", "\"", "/", ">">>
PageChain10 ==
    <<"<", "i", "n", "c", "l", "u", "d", "e", " ", "s", "r", "c", "=", "\"", "c", "2", ".", "h", "t", "m", "l", "\"", "/", ">">>
PageSubdirectory ==
    <<"<", "i", "n", "c", "l", "u", "d", "e", " ", "s", "r", "c", "=", "\"", "s", "u", "b", "/", "n", "a", "v", ".", "h", "t", "m", "l", "\"", "/", ">", "<", "i", "n", "c", "l", "u", "d", "e", " ", "s", "r", "c", "=", "\"", "B", ".", "h", "t", "m", "l", "\"", " ", "x", "=", "\"", "5", "\"", "/", ">">>
PageInherited ==
    <<"<", "i", "n", "c", "l", "u", "d", "e", " ", "s", "r", "c", "=", "\"", "p", "r", "o", "t", "o", ".", "h", "t", "m", "l", "\"", "/", ">">>
PageSiblings ==
    <<"<", "i", "n", "c", "l", "u", "d", "e", " ", "s", "r", "c", "=", "\"", "t", "w", "o", ".", "h", "t", "m", "l", "\"", " ", "a", "=", "\"", "1", "\"", "/", ">", "<", "i", "n", "c", "l", "u", "d", "e", " ", "s", "r", "c", "=", "\"", "t", "w", "o", ".", "h", "t", "m", "l", "\"", " ", "b", "=", "\"", "2", "\"", ">">>
PageSplitDirective ==
    <<"<", "i", "n", "c", "l", "{", "{", "z", "}", "}", "u", "d", "e", " ", "s", "r", "c", "=", "\"", "B", ".", "h", "t", "m", "l", "\"", " ", "x", "=", "\"", "4", "\"", "/", ">">>
PageNoAttributes ==
    <<"<", "i", "n", "c", "l", "u", "d", "e", " ", "s", "r", "c", "=", "\"", "h", "i", ".", "h", "t", "m", "l", "\"", "/", ">">>
PageComponentSplit ==
    <<"<", "i", "n", "c", "l", "u", "d", "e", " ", "s", "r", "c", "=", "\"", "m", "k", ".", "h", "t", "m", "l", "\"", "/", ">">>
PageCycleWithMissing ==
    <<"<", "i", "n", "c", "l", "u", "d", "e", " ", "s", "r", "c", "=", "\"", "s", "m", ".", "h", "t", "m", "l", "\"", "/", ">">>
PageEnclosingAttributes ==
    <<"<", "i", "n", "c", "l", "u", "d", "e", " ", "s", "r", "c", "=", "\"", "o", "u", "t", "e", "r", ".", "h", "t", "m", "l", "\"", " ", "b", "=", "\"", "7", "\"", "/", ">">>
PageCycleWithVariable ==
    <<"{", "{", "t", "}", "}", "<", "i", "n", "c", "l", "u", "d", "e", " ", "s", "r", "c", "=", "\"", "s", "e", "l", "f", ".", "h", "t", "m", "l", "\"", "/", ">">>
PageTwelveSiblings ==
    <<"<", "i", "n", "c", "l", "u", "d", "e", " ", "s", "r", "c", "=", "\"", "B", ".", "h", "t", "m", "l", "\"", " ", "x", "=", "\"", "1", "\"", "/", ">", "<", "i", "n", "c", "l", "u", "d", "e", " ", "s", "r", "c", "=", "\"", "B", ".", "h", "t", "m", "l", "\"", " ", "x", "=", "\"", "1", "\"", "/", ">", "<", "i", "n", "c", "l", "u", "d", "e", " ", "s", "r", "c", "=", "\"", "B", ".", "h", "t", "m", "l", "\"", " ", "x", "=", "\"", "1", "\"", "/", ">", "<", "i", "n", "c", "l", "u", "d", "e", " ", "s", "r", "c", "=", "\"", "B", ".", "h", "t", "m", "l", "\"", " ", "x", "=", "\"", "1", "\"", "/", ">", "<", "i", "n", "c", "l", "u", "d", "e", " ", "s", "r", "c", "=", "\"", "B", ".", "h", "t", "m", "l", "\"", " ", "x", "=", "\"", "1", "\"", "/", ">", "<", "i", "n", "c", "l", "u", "d", "e", " ", "s", "r", "c", "=", "\"", "B", ".", "h", "t", "m", "l", "\"", " ", "x", "=", "\"", "1", "\"", "/", ">", "<", "i", "n", "c", "l", "u", "d", "e", " ", "s", "r", "c", "=", "\"", "B", ".", "h", "t", "m", "l", "\"", " ", "x", "=", "\"", "1", "\"", "/", ">", "<", "i", "n", "c", "l", "u", "d", "e", " ", "s", "r", "c", "=", "\"", "B", ".", "h", "t", "m", "l", "\"", " ", "x", "=", "\"", "1", "\"", "/", ">", "<", "i", "n", "c", "l", "u", "d", "e", " ", "s", "r", "c", "=", "\"", "B", ".", "h", "t", "m", "l", "\"", " ", "x", "=", "\"", "1", "\"", "/", ">", "<", "i", "n", "c", "l", "u", "d", "e", " ", "s", "r", "c", "=", "\"", "B", ".", "h", "t", "m", "l", "\"", " ", "x", "=", "\"", "1", "\"", "/", ">", "<", "i", "n", "c", "l", "u", "d", "e", " ", "s", "r", "c", "=", "\"", "B", ".", "h", "t", "m", "l", "\"", " ", "x", "=", "\"", "1", "\"", "/", ">", "<", "i", "n", "c", "l", "u", "d", "e", " ", "s", "r", "c", "=", "\"", "B", ".", "h", "t", "m", "l", "\"", " ", "x", "=", "\"", "1", "\"", "/", ">">>

Pages ==
    {PagePlain,
     PageTopLevelVariable,
     PageSingle,
     PageMissing,
     PageMissingAmongOthers,
     PageNested,
     PageNestedInText,
     PageSelfCycle,
     PageTwoCycle,
     PageChain12,
     PageChain11,
     PageChain10,
     PageSubdirectory,
     PageInherited,
     PageSiblings,
     PageSplitDirective,
     PageNoAttributes,
     PageComponentSplit,
     PageCycleWithMissing,
     PageEnclosingAttributes,
     PageCycleWithVariable,
     PageTwelveSiblings}

-----------------------------------------------------------------------------
\* processIncludes

maxDepth == 10

kMarkerHead ==
    <<"<", "!", "-", "-", " ", "I", "n", "c", "l", "u", "d", "e", " ", "E", "r", "r", "o", "r", ":", " ">>
kMarkerTail ==
    <<" ", "n", "o", "t", " ", "f", "o", "u", "n", "d", " ", "o", "r", " ", "p", "r", "o", "c", "e", "s", "s", "e", "d", " ", "-", "-", ">">>

\* the path of the file a character came from; the page itself is << >>
PathOfIndex(files, id) == IF id = 0 THEN << >> ELSE files[id].path

IncludingFile(id) == PathOfIndex(Files, id)

\* a lookup relative to the directory of the including component
filePathRelative(baseComponentDir, src, includingFile) ==
    IF includingFile = << >> THEN PathJoin(baseComponentDir, src)
    ELSE PathJoin(Dirname(includingFile), src)

\* let filePath = path.join(baseComponentDir, src).  includingFile is the file
\* the directive stands in; the source does not consult it.
filePath(baseComponentDir, src, includingFile) == PathJoin(baseComponentDir, src)

\* a catch block that lets the error go on
catchRethrow(src) == [caught |-> FALSE, text |-> << >>]

\* a catch block that returns the empty string
catchEmpty(src) == [caught |-> TRUE, text |-> << >>]

\* the catch block of the callback: the marker naming src
catchReadError(src) == [caught |-> TRUE, text |-> kMarkerHead \o src \o kMarkerTail]

\* componentContent.replace(placeholder expression, callback) from index i on;
\* acc holds the output so far and one record per placeholder replaced
RECURSIVE replaceVariables(_, _, _, _)

\* the callback for one match m: the text before it is kept, value replaces it
replaceVariable(content, attributes, acc, kept, m, value) ==
    With([out |-> kept \o value,
          subs |-> Append(acc.subs,
                      [varName |-> m.varName, value |-> value,
                       start |-> m.start, end |-> m.end,
                       outStart |-> Len(kept) + 1])],
         LAMBDA next : replaceVariables(content, m.end + 1, attributes, next))

replaceVariableAt(content, i, attributes, acc, m) ==
    With(AttributeOrEmpty(attributes, m.varName),
         LAMBDA value :
             replaceVariable(content, attributes, acc,
                             acc.out \o Slice(content, i, m.start - 1), m, value))

replaceVariablesNext(content, i, attributes, acc, j) ==
    IF j = 0
    THEN [out |-> acc.out \o Slice(content, i, Len(content)), subs |-> acc.subs]
    ELSE With(placeholderRegex(content, j),
              LAMBDA m : replaceVariableAt(content, i, attributes, acc, m))

replaceVariables(content, i, attributes, acc) ==
    With(nextPlaceholder(content, i),
         LAMBDA j : replaceVariablesNext(content, i, attributes, acc, j))

\* what the callback hands back for one directive, with what it did
CallbackRecord(m, includingFile, fp, readOk, caught, attributes, content, subs, replacement) ==
    [src |-> m.src, attrsString |-> m.attrsString, start |-> m.start, end |-> m.end,
     includingFile |-> includingFile, filePath |-> fp,
     readOk |-> readOk, caught |-> caught, attributes |-> attributes,
     content |-> content, subs |-> subs, replacement |-> replacement, outStart |-> 0]

\* return componentContent, after the replace over the component's text
callbackReturn(m, includingFile, fp, content, attributes, sub) ==
    CallbackRecord(m, includingFile, fp, TRUE, TRUE, attributes, content, sub.subs, sub.out)

\* the try block once the file is read
callbackTry(m, includingFile, fp, content, attributes) ==
    With(replaceVariables(content, 1, attributes, [out |-> << >>, subs |-> << >>]),
         LAMBDA sub : callbackReturn(m, includingFile, fp, content, attributes, sub))

\* the catch block
callbackCatch(m, includingFile, fp, err) ==
    CallbackRecord(m, includingFile, fp, FALSE, err.caught, EmptyAttributes, << >>, << >>, err.text)

\* try { readFileSync ... } catch (err) { ... }
callbackRead(m, includingFile, fp, rd) ==
    IF rd.threw
    THEN callbackCatch(m, includingFile, fp, catchReadError(m.src))
    ELSE With(parseAttributes(Trim(m.attrsString)),
              LAMBDA attributes : callbackTry(m, includingFile, fp, rd.text, attributes))

callbackPath(m, includingFile, fp) ==
    With(readFileSync(fp), LAMBDA rd : callbackRead(m, includingFile, fp, rd))

\* the callback of processedHtml.replace(includeRegex, ...) for one match m
includeCallback(m, includingFile) ==
    With(filePath(componentsDir, m.src, includingFile),
         LAMBDA fp : callbackPath(m, includingFile, fp))

\* one sweep: processedHtml.replace(includeRegex, callback) from index i on.
\* p is the provenance of t; acc holds the output so far, its provenance, and
\* one record per directive matched.  Text spliced in is not scanned again.
RECURSIVE replaceIncludes(_, _, _, _, _)

\* the replacement of one directive goes to the output; the scan goes on
\* after the directive
spliceReplacement(t, p, passNo, acc, kept, keptProv, e, from) ==
    With([out |-> kept \o e.replacement,
          prov |-> keptProv \o [k \in 1..Len(e.replacement) |-> [file |-> from, pass |-> passNo]],
          events |-> Append(acc.events, [e EXCEPT !.outStart = Len(kept) + 1])],
         LAMBDA next : replaceIncludes(t, p, e.end + 1, passNo, next))

spliceCallback(t, p, i, passNo, acc, inFile, e) ==
    spliceReplacement(t, p, passNo, acc,
        acc.out \o Slice(t, i, e.start - 1),
        acc.prov \o Slice(p, i, e.start - 1),
        e, IF e.readOk THEN FileId(e.filePath) ELSE inFile)

replaceIncludesNext(t, p, i, passNo, acc, j) ==
    IF j = 0
    THEN [out |-> acc.out \o Slice(t, i, Len(t)),
          prov |-> acc.prov \o Slice(p, i, Len(p)),
          events |-> acc.events]
    ELSE With(includeRegex(t, j),
              LAMBDA m :
                  With(includeCallback(m, IncludingFile(p[j].file)),
                       LAMBDA e : spliceCallback(t, p, i, passNo, acc, p[j].file, e)))

replaceIncludes(t, p, i, passNo, acc) ==
    With(nextInclude(t, i), LAMBDA j : replaceIncludesNext(t, p, i, passNo, acc, j))

\* a top-level pass that trims the text instead
removeTopLevelTrim(t, p, i, acc) ==
    [out |-> Trim(t),
     prov |-> Slice(p, SkipWhile(t, 1, Whitespace),
                    Least({j \in 0..Len(t) : \A k \in (j + 1)..Len(t) : t[k] \in Whitespace}))]

\* processedHtml.replace(placeholder expression, () => '') of build.js, from
\* index i on: every token is removed
RECURSIVE removeTopLevel(_, _, _, _)
\* the callback for one match m: the token goes, the text before it stays
removeTopLevelAt(t, p, i, acc, m) ==
    With([out |-> acc.out \o Slice(t, i, m.start - 1),
          prov |-> acc.prov \o Slice(p, i, m.start - 1)],
         LAMBDA next : removeTopLevel(t, p, m.end + 1, next))

removeTopLevelNext(t, p, i, acc, j) ==
    IF j = 0
    THEN [out |-> acc.out \o Slice(t, i, Len(t)), prov |-> acc.prov \o Slice(p, i, Len(p))]
    ELSE With(placeholderRegex(t, j), LAMBDA m : removeTopLevelAt(t, p, i, acc, m))

removeTopLevel(t, p, i, acc) ==
    With(nextPlaceholder(t, i), LAMBDA j : removeTopLevelNext(t, p, i, acc, j))

-----------------------------------------------------------------------------
\* The state machine

MaxCalls == 2

PageProvenance(t) == [k \in 1..Len(t) |-> [file |-> 0, pass |-> 0]]

Init ==
    /\ variant \in {"build", "part000"}
    /\ pc = "idle"
    /\ html = << >>
    /\ processedHtml = << >>
    /\ prov = << >>
    /\ depth = 0
    /\ includesFoundInPass = FALSE
    /\ passes = 0
    /\ prevHtml = << >>
    /\ events = << >>
    /\ reads = {}
    /\ result = << >>
    /\ via = "none"
    /\ errorLogged = FALSE
    /\ calls = 0
    /\ written = {}
    /\ exitCode = 0
    /\ parsePc = "off"
    /\ parseInput = << >>
    /\ parseOutput = EmptyAttributes

\* a call whose depth counter lives outside the function and is not reset
CallKeepDepth(page) ==
    /\ pc = "idle"
    /\ calls < MaxCalls
    /\ calls' = calls + 1
    /\ html' = page
    /\ processedHtml' = page
    /\ prov' = PageProvenance(page)
    /\ depth' = depth
    /\ includesFoundInPass' = FALSE
    /\ passes' = 0
    /\ prevHtml' = << >>
    /\ events' = << >>
    /\ reads' = {}
    /\ result' = << >>
    /\ via' = "none"
    /\ errorLogged' = FALSE
    /\ pc' = "do"
    /\ UNCHANGED <<variant, written>>
    /\ UNCHANGED <<exitCode, parseVars>>

\* processDirectory reads a page and calls processIncludes(htmlContent,
\* config.componentsDir); the locals of the call are initialised
Call(page) ==
    /\ pc = "idle"
    /\ calls < MaxCalls
    /\ calls' = calls + 1
    /\ html' = page
    /\ processedHtml' = page
    /\ prov' = PageProvenance(page)
    /\ depth' = 0
    /\ includesFoundInPass' = FALSE
    /\ passes' = 0
    /\ prevHtml' = << >>
    /\ events' = << >>
    /\ reads' = {}
    /\ result' = << >>
    /\ via' = "none"
    /\ errorLogged' = FALSE
    /\ pc' = "do"
    /\ UNCHANGED <<variant, written>>
    /\ UNCHANGED <<exitCode, parseVars>>

\* if (depth++ > maxDepth) { console.error(...); return processedHtml; }
CheckDepth ==
    /\ pc = "do"
    /\ depth' = depth + 1
    /\ IF depth > maxDepth
       THEN /\ errorLogged' = TRUE
            /\ result' = processedHtml
            /\ via' = "depth"
            /\ pc' = "returned"
       ELSE /\ pc' = "sweep"
            /\ UNCHANGED <<errorLogged, result, via>>
    /\ UNCHANGED <<variant, html, processedHtml, prov, includesFoundInPass, passes,
                   prevHtml, events, reads, calls, written>>
    /\ UNCHANGED <<exitCode, parseVars>>

\* includesFoundInPass = false; processedHtml = processedHtml.replace(...)
\* r is what the replace call computed
SweepTo(r) ==
    /\ passes' = passes + 1
    /\ prevHtml' = processedHtml
    /\ events' = r.events
    /\ reads' = reads \cup
           {[src |-> r.events[k].src, includingFile |-> r.events[k].includingFile,
             filePath |-> r.events[k].filePath] : k \in 1..Len(r.events)}
    /\ includesFoundInPass' = (r.events # << >>)
    /\ IF \E k \in 1..Len(r.events) : ~r.events[k].caught
       THEN /\ pc' = "threw"
            /\ UNCHANGED <<processedHtml, prov>>
       ELSE /\ pc' = "while"
            /\ processedHtml' = r.out
            /\ prov' = r.prov

\* a sweep that scans the text it has spliced in once more before it ends
SweepRescanning ==
    /\ pc = "sweep"
    /\ \E first \in {replaceIncludes(processedHtml, prov, 1, passes + 1,
                                     [out |-> << >>, prov |-> << >>, events |-> << >>])} :
           \E r \in {replaceIncludes(first.out, first.prov, 1, passes + 1,
                                     [out |-> << >>, prov |-> << >>, events |-> first.events])} :
               SweepTo(r)
    /\ UNCHANGED <<variant, html, depth, result, via, errorLogged, calls, written>>
    /\ UNCHANGED <<exitCode, parseVars>>

\* a sweep that counts depth once for every directive it replaces
SweepCountingDirectives ==
    /\ pc = "sweep"
    /\ \E r \in {replaceIncludes(processedHtml, prov, 1, passes + 1,
                                 [out |-> << >>, prov |-> << >>, events |-> << >>])} :
           /\ SweepTo(r)
           /\ depth' = depth + Len(r.events)
    /\ UNCHANGED <<variant, html, result, via, errorLogged, calls, written>>
    /\ UNCHANGED <<exitCode, parseVars>>

Sweep ==
    /\ pc = "sweep"
    /\ \E r \in {replaceIncludes(processedHtml, prov, 1, passes + 1,
                                 [out |-> << >>, prov |-> << >>, events |-> << >>])} :
           SweepTo(r)
    /\ UNCHANGED <<variant, html, depth, result, via, errorLogged, calls, written>>
    /\ UNCHANGED <<exitCode, parseVars>>

\* a loop that is left after its first sweep
WhileOnce ==
    /\ pc = "while"
    /\ IF variant = "build"
       THEN /\ pc' = "toplevel"
            /\ UNCHANGED <<result, via>>
       ELSE /\ pc' = "returned"
            /\ result' = processedHtml
            /\ via' = "end"
    /\ UNCHANGED <<variant, html, processedHtml, prov, depth, includesFoundInPass,
                   passes, prevHtml, events, reads, errorLogged, calls, written>>
    /\ UNCHANGED <<exitCode, parseVars>>

\* } while (includesFoundInPass); the part_000 scripts return processedHtml
\* right after the loop
While ==
    /\ pc = "while"
    /\ IF includesFoundInPass
       THEN /\ pc' = "do"
            /\ UNCHANGED <<result, via>>
       ELSE IF variant = "build"
       THEN /\ pc' = "toplevel"
            /\ UNCHANGED <<result, via>>
       ELSE /\ pc' = "returned"
            /\ result' = processedHtml
            /\ via' = "end"
    /\ UNCHANGED <<variant, html, processedHtml, prov, depth, includesFoundInPass,
                   passes, prevHtml, events, reads, errorLogged, calls, written>>
    /\ UNCHANGED <<exitCode, parseVars>>

\* build.js only: the top-level variables are removed, then return processedHtml
TopLevelTo(r) ==
    /\ processedHtml' = r.out
    /\ prov' = r.prov
    /\ result' = r.out

TopLevel ==
    /\ pc = "toplevel"
    /\ \E r \in {removeTopLevel(processedHtml, prov, 1, [out |-> << >>, prov |-> << >>])} :
           TopLevelTo(r)
    /\ via' = "end"
    /\ pc' = "returned"
    /\ UNCHANGED <<variant, html, depth, includesFoundInPass, passes, prevHtml,
                   events, reads, errorLogged, calls, written>>
    /\ UNCHANGED <<exitCode, parseVars>>

\* a driver that treats the depth return as a failure of the build
DriverFailOnCap ==
    /\ pc \in {"returned", "threw"}
    /\ IF pc = "returned" /\ via = "depth"
       THEN /\ exitCode' = 1
            /\ pc' = "exited"
            /\ UNCHANGED written
       ELSE /\ written' = IF pc = "returned" THEN written \cup {<<html, result>>} ELSE written
            /\ pc' = "idle"
            /\ UNCHANGED exitCode
    /\ UNCHANGED <<variant, html, processedHtml, prov, depth, includesFoundInPass,
                   passes, prevHtml, events, reads, result, via, errorLogged, calls>>
    /\ UNCHANGED parseVars

\* processDirectory: fs.writeFileSync(outputPath, processedHtml), or the catch
\* around the page when the call threw; then the next entry
Driver ==
    /\ pc \in {"returned", "threw"}
    /\ written' = IF pc = "returned" THEN written \cup {<<html, result>>} ELSE written
    /\ pc' = "idle"
    /\ UNCHANGED <<variant, html, processedHtml, prov, depth, includesFoundInPass,
                   passes, prevHtml, events, reads, result, via, errorLogged, calls>>
    /\ UNCHANGED <<exitCode, parseVars>>

\* runBuild: an exception that reaches its catch block, thrown between two
\* pages by processDirectory outside the try around a page (readdirSync,
\* mkdirSync): console.error('Build failed'), process.exit(1)
BuildFailed ==
    /\ pc = "idle"
    /\ exitCode' = 1
    /\ pc' = "exited"
    /\ UNCHANGED <<variant, html, processedHtml, prov, depth, includesFoundInPass,
                   passes, prevHtml, events, reads, result, via, errorLogged, calls,
                   written, parseVars>>

Next ==
    \/ \E page \in Pages : Call(page)
    \/ CheckDepth
    \/ Sweep
    \/ While
    \/ TopLevel
    \/ Driver
    \/ BuildFailed

Spec == Init /\ [][Next]_vars

\* the engine runs a call to its end: no step of a call waits on anything
LiveSpec == Spec /\ WF_vars(CheckDepth) /\ WF_vars(Sweep) /\ WF_vars(While) /\ WF_vars(TopLevel)

-----------------------------------------------------------------------------
\* parseAttributes called on its own: the attribute strings are up to
\* MaxFragments fragments joined by single spaces.  The fragments: a key
\* twice with different values, a second key, a key with a character
\* outside the word class, a value whose quote is not closed, and the key
\* __proto__.

MaxFragments == 3

Fragments ==
    {<<"a", "=", "\"", "1", "\"">>,
     <<"a", "=", "\"", "2", "\"">>,
     <<"b", "=", "\"", "3", "\"">>,
     <<"d", "a", "t", "a", "-", "n", "a", "m", "e", "=", "\"", "x", "\"">>,
     <<"c", "=", "\"", "f", "o", "o">>,
     <<"_", "_", "p", "r", "o", "t", "o", "_", "_", "=", "\"", "p", "\"">>}

RECURSIVE JoinFragments(_)
JoinFragments(fs) ==
    IF fs = << >> THEN << >>
    ELSE IF Len(fs) = 1 THEN fs[1]
    ELSE fs[1] \o <<" ">> \o JoinFragments(Tail(fs))

AttrStrings ==
    {JoinFragments(fs) : fs \in UNION {[1..n -> Fragments] : n \in 0..MaxFragments}}

ParseInit ==
    /\ variant = "build"
    /\ pc = "off"
    /\ html = << >>
    /\ processedHtml = << >>
    /\ prov = << >>
    /\ depth = 0
    /\ includesFoundInPass = FALSE
    /\ passes = 0
    /\ prevHtml = << >>
    /\ events = << >>
    /\ reads = {}
    /\ result = << >>
    /\ via = "none"
    /\ errorLogged = FALSE
    /\ calls = 0
    /\ written = {}
    /\ exitCode = 0
    /\ parsePc = "idle"
    /\ parseInput = << >>
    /\ parseOutput = EmptyAttributes

\* parseAttributes(s) is called
ParseCall(s) ==
    /\ parsePc = "idle"
    /\ parseInput' = s
    /\ parsePc' = "called"
    /\ UNCHANGED <<variant, pc, html, processedHtml, prov, depth, includesFoundInPass,
                   passes, prevHtml, events, reads, result, via, errorLogged, calls,
                   written, exitCode, parseOutput>>

\* the loop runs to its end; return attributes
ParseReturn ==
    /\ parsePc = "called"
    /\ parseOutput' = parseAttributes(parseInput)
    /\ parsePc' = "returned"
    /\ UNCHANGED <<variant, pc, html, processedHtml, prov, depth, includesFoundInPass,
                   passes, prevHtml, events, reads, result, via, errorLogged, calls,
                   written, exitCode, parseInput>>

ParseNext ==
    \/ \E s \in AttrStrings : ParseCall(s)
    \/ ParseReturn

ParseSpec == ParseInit /\ [][ParseNext]_vars

-----------------------------------------------------------------------------
\* Properties

\* sub stands somewhere in t
Occurs(sub, t) == \E i \in 1..Len(t) : LiteralAt(t, i, sub)

\* the marker the catch block is to leave for src
Marker(src) == kMarkerHead \o src \o kMarkerTail

\* where the replacement of directive k of the last sweep ends in the output
OutEnd(k) == events[k].outStart + Len(events[k].replacement) - 1

C2_AtMostMaxDepthSweeps == passes <= maxDepth

\* C3 (as claimed): after the call returns, the output holds no include
\* directive whose component file exists and which stands in text of nesting
\* level (the sweep that spliced the text in; 0 for the page) at most 10.
C3_NoResolvableDirectiveLeft ==
    pc = "returned" =>
        \A i \in 1..Len(result) :
            ~ /\ includeRegex(result, i).ok
              /\ ~readFileSync(PathJoin(componentsDir, includeRegex(result, i).src)).threw
              /\ prov[i].pass <= maxDepth

\* C4 (as claimed): when the call returns through the depth check, it returns
\* the text as the sweeps left it, and that text still holds an include
\* directive.
C4_DepthReturnHoldsDirective ==
    (pc = "returned" /\ via = "depth") =>
        /\ result = processedHtml
        /\ HasInclude(result)

\* C5 (as claimed): the text of the page before its first directive comes
\* out unchanged at the head of the output, and no directive whose file
\* cannot be read is left in the output.
C5_SurroundingTextUnchanged ==
    pc = "returned" =>
        /\ \A i \in 1..Len(html) :
               (includeRegex(html, i).ok /\ \A j \in 1..(i - 1) : ~includeRegex(html, j).ok)
                   => Slice(result, 1, i - 1) = Slice(html, 1, i - 1)
        /\ \A i \in 1..Len(result) :
               includeRegex(result, i).ok
                   => ~readFileSync(PathJoin(componentsDir, includeRegex(result, i).src)).threw

\* C5 (amended): a sweep replaces every directive it matches whose file cannot
\* be read by the marker naming its src, exactly where the directive stood;
\* the text between the directives is the same before and after the sweep;
\* and every directive of the text is matched by the sweep, so the others are
\* replaced in the same sweep.
C5_SweepPutsMarkerInPlace ==
    pc = "while" =>
        /\ \A k \in 1..Len(events) :
              /\ Slice(prevHtml, IF k = 1 THEN 1 ELSE events[k - 1].end + 1, events[k].start - 1)
                   = Slice(processedHtml, IF k = 1 THEN 1 ELSE OutEnd(k - 1) + 1,
                           events[k].outStart - 1)
              /\ ~events[k].readOk =>
                    /\ Slice(processedHtml, events[k].outStart, OutEnd(k)) = Marker(events[k].src)
                    /\ Len(events[k].replacement) = Len(Marker(events[k].src))
              /\ events[k].readOk =>
                    Slice(processedHtml, events[k].outStart, OutEnd(k)) = events[k].replacement
        /\ Slice(prevHtml, IF events = << >> THEN 1 ELSE events[Len(events)].end + 1, Len(prevHtml))
             = Slice(processedHtml, IF events = << >> THEN 1 ELSE OutEnd(Len(events)) + 1,
                     Len(processedHtml))
        /\ \A i \in 1..Len(prevHtml) :
              includeRegex(prevHtml, i).ok
                  => \E k \in 1..Len(events) : events[k].start <= i /\ i <= events[k].end

\* a sweep has replaced an unreadable directive that stood between other text
\* and a readable directive
C5_Witness ==
    /\ pc = "while"
    /\ \E k \in 1..Len(events) : ~events[k].readOk /\ events[k].start > 1
    /\ \E k \in 1..Len(events) : events[k].readOk

\* the characters of t outside every placeholder token, in order
OutsideTokens(t) ==
    LET tokens == {k \in 1..Len(t) :
                      \E i \in 1..k : placeholderRegex(t, i).ok /\ k <= placeholderRegex(t, i).end}
        keep == (1..Len(t)) \ tokens
    IN [n \in 1..Cardinality(keep) |->
           t[CHOOSE k \in keep : Cardinality({j \in keep : j < k}) = n - 1]]

\* C6 (as claimed): a text without include directive is returned unchanged.
C6_NoDirectiveUnchanged ==
    (pc = "returned" /\ ~HasInclude(html)) => result = html

\* C6 (amended): for a text without include directive the part_000 scripts
\* return it unchanged; build.js returns it with its placeholder tokens taken
\* out and nothing else changed, so unchanged when it holds no token.  One
\* sweep is made and the depth return is not taken.
C6_NoDirectiveOnlyTokensRemoved ==
    (pc = "returned" /\ ~HasInclude(html)) =>
        /\ via = "end"
        /\ passes = 1
        /\ variant = "part000" => result = html
        /\ variant = "build" => result = OutsideTokens(html)
        /\ ~HasPlaceholder(html) => result = html

\* build.js has returned a text without directive that held a token, and one
\* that held none
C6_Witness ==
    /\ pc = "returned"
    /\ variant = "build"
    /\ ~HasInclude(html)
    /\ HasPlaceholder(html)
    /\ \E w \in written : ~HasInclude(w[1]) /\ ~HasPlaceholder(w[1]) /\ w[1] # << >>

\* C7: in every component a sweep loads, each placeholder whose name is a key
\* of the directive's attribute set is replaced by that key's value, every
\* placeholder of the component is replaced, and every pair of the attribute
\* set is written in the directive's own attribute string.
C7_ValuesFromOwnAttributes ==
    pc = "while" =>
        \A k \in 1..Len(events) :
            events[k].readOk =>
                /\ \A n \in 1..Len(events[k].subs) :
                      LET s == events[k].subs[n]
                      IN /\ s.varName \in DOMAIN events[k].attributes
                            => s.value = events[k].attributes[s.varName]
                         /\ Slice(processedHtml, events[k].outStart + s.outStart - 1,
                                  events[k].outStart + s.outStart + Len(s.value) - 2) = s.value
                /\ Len(events[k].subs)
                     = Cardinality({i \in 1..Len(events[k].content) :
                                        placeholderRegex(events[k].content, i).ok})
                /\ \A key \in DOMAIN events[k].attributes :
                      Occurs(key \o <<"=", "\"">> \o events[k].attributes[key] \o <<"\"">>,
                             events[k].attrsString)

\* one sweep has loaded a component for two directives with different
\* attribute sets, each naming a placeholder of the component
C7_Witness ==
    /\ pc = "while"
    /\ \E k1, k2 \in 1..Len(events) :
          /\ k1 # k2
          /\ events[k1].readOk /\ events[k2].readOk
          /\ events[k1].filePath = events[k2].filePath
          /\ events[k1].attributes # events[k2].attributes
          /\ \E n \in 1..Len(events[k1].subs) :
                events[k1].subs[n].varName \in DOMAIN events[k1].attributes
          /\ \E n \in 1..Len(events[k2].subs) :
                events[k2].subs[n].varName \in DOMAIN events[k2].attributes

\* C8 (as claimed): in every component a sweep loads, each placeholder whose
\* name is not a key of the directive's attribute set is replaced by the
\* empty string.
C8_AbsentNameGivesEmpty ==
    pc = "while" =>
        \A k \in 1..Len(events) :
            events[k].readOk =>
                \A n \in 1..Len(events[k].subs) :
                    events[k].subs[n].varName \notin DOMAIN events[k].attributes
                        => events[k].subs[n].value = << >>

kNestedDirective ==
    <<"<", "i", "n", "c", "l", "u", "d", "e", " ", "s", "r", "c", "=", "\"", "A", ".", "h", "t", "m", "l", "\"", "/", ">">>
kNestedOutput ==
    <<"v", "a", "l", "=", "1">>
kEnclosingOutput ==
    <<"1", "-">>

\* C9: a page that includes A, where A includes B with x="1" and B holds
\* val={{x}}, comes out with val=1 in place of the directive, the text around
\* it unchanged and no directive left; the nested directive takes its values
\* from its own attributes, not from those of the directive around it.
C9_NestedInclusion ==
    pc = "returned" =>
        /\ \A pre, post \in {<< >>, <<"a", "b">>, <<"c", "d">>} :
              html = pre \o kNestedDirective \o post
                  => /\ result = pre \o kNestedOutput \o post
                     /\ ~HasInclude(result)
                     /\ via = "end"
        /\ html = PageEnclosingAttributes => result = kEnclosingOutput

\* the page with text around the directive of A has been resolved
C9_Witness ==
    /\ pc = "returned"
    /\ html = PageNestedInText
    /\ passes = 3

\* C10: the file read for a directive is path.join of the component root and
\* the directive's src: two lookups with the same src read the same file,
\* whichever file the directives stand in.
C10_LookupFromRootOnly ==
    \A r1 \in reads :
        /\ r1.filePath = PathJoin(componentsDir, r1.src)
        /\ \A r2 \in reads : r1.src = r2.src => r1.filePath = r2.filePath

\* the same src has been looked up from the page and from a component of a
\* subdirectory
C10_Witness ==
    \E r1, r2 \in reads :
        /\ r1.src = r2.src
        /\ r1.includingFile = << >>
        /\ Len(r2.includingFile) > Len(componentsDir) + 1

\* the attribute expression matches at index i as a whole fragment: the key
\* starts the string or follows a whitespace character
WellFormedAt(s, i) ==
    /\ attrRegex(s, i).ok
    /\ i = 1 \/ s[i - 1] \in Whitespace

\* C11 (as claimed): parseAttributes returns for every attribute string, and
\* every pair of the result is the key and the value of a well-formed
\* key="value" fragment of the string; a fragment whose key holds a character
\* outside the word class contributes no pair.
C11_OnlyWellFormedFragments ==
    parsePc = "returned" =>
        \A key \in DOMAIN parseOutput :
            \E i \in 1..Len(parseInput) :
                /\ WellFormedAt(parseInput, i)
                /\ attrRegex(parseInput, i).key = key
                /\ attrRegex(parseInput, i).value = parseOutput[key]

\* where the matches of the attribute expression start when the string is
\* scanned from left to right: a match starts at i when the expression matches
\* there and every match before it has ended
RECURSIVE ScanStartsFrom(_, _, _, _)
ScanStartsFrom(s, i, lastEnd, starts) ==
    IF i > Len(s) THEN starts
    ELSE IF i > lastEnd /\ attrRegex(s, i).ok
         THEN ScanStartsFrom(s, i + 1, attrRegex(s, i).end, starts \cup {i})
         ELSE ScanStartsFrom(s, i + 1, lastEnd, starts)

ScanStarts(s) == ScanStartsFrom(s, 1, 0, {})

\* the matches of key among starts
OccurrencesOf(s, starts, key) == {j \in starts : attrRegex(s, j).key = key}

\* the rightmost element of a non-empty set of indices
Greatest(S) == CHOOSE j \in S : \A k \in S : k <= j

\* the key matched at i, when it is matched more than once, is an entry of the
\* result and holds the value of its rightmost match
LastWinsAt(s, starts, i, attributes) ==
    Cardinality(OccurrencesOf(s, starts, attrRegex(s, i).key)) > 1 =>
        /\ attrRegex(s, i).key \in DOMAIN attributes
        /\ attributes[attrRegex(s, i).key]
             = attrRegex(s, Greatest(OccurrencesOf(s, starts, attrRegex(s, i).key))).value

\* C12 (as claimed): a key that occurs more than once in the attribute string
\* is one entry of the result, and its value is that of the key's last
\* occurrence.
C12_LastOccurrenceWins ==
    parsePc = "returned" =>
        \A starts \in {ScanStarts(parseInput)} :
            \A i \in starts : LastWinsAt(parseInput, starts, i, parseOutput)

\* processIncludes as a function of the text alone: the loop run on locals
\* that start as the function's first lines set them.  d is depth before the
\* test of the next round.
RECURSIVE processIncludesLoop(_, _, _)

\* after a sweep with outcome r: the loop test, then the end of the function
processIncludesWhile(r, d) ==
    IF r.events # << >> THEN processIncludesLoop(r.out, r.prov, d)
    ELSE IF variant = "build"
         THEN removeTopLevel(r.out, r.prov, 1, [out |-> << >>, prov |-> << >>]).out
         ELSE r.out

processIncludesLoop(t, p, d) ==
    IF d > maxDepth THEN t
    ELSE With(replaceIncludes(t, p, 1, d + 1, [out |-> << >>, prov |-> << >>, events |-> << >>]),
              LAMBDA r : processIncludesWhile(r, d + 1))

FreshResult(page) == processIncludesLoop(page, PageProvenance(page), 0)

\* C13: the text a call returns is the text a call on the same page returns
\* when nothing has been resolved before it, whatever pages were resolved
\* earlier (pages that took the depth return or held a missing component
\* included); and any two calls on the same text have written the same
\* output.
C13_ResultDependsOnTextOnly ==
    /\ pc = "returned" => result = FreshResult(html)
    /\ \A w1, w2 \in written : w1[1] = w2[1] => w1[2] = w2[2]

\* a second call has returned after a call on another page that took the
\* depth return, and a page has been resolved a second time
C13_Witness ==
    /\ pc = "returned"
    /\ calls = 2
    /\ \E w \in written :
          /\ w[1] \in {PageSelfCycle, PageCycleWithMissing}
          /\ w[1] # html
          /\ HasInclude(html)

\* C14: when a call has taken the depth return, the error has been logged and
\* the exit status is 0; the driver's next step writes the returned text as
\* the page's output and goes on to the next entry with the exit status
\* still 0; and a page that remains can then be handed to processIncludes.
C14_CapDoesNotFailBuild ==
    /\ []((pc = "returned" /\ via = "depth") => (errorLogged /\ exitCode = 0))
    /\ [][(pc = "returned" /\ via = "depth") =>
             /\ written' = written \cup {<<html, result>>}
             /\ pc' = "idle"
             /\ exitCode' = 0]_vars
    /\ []((pc = "idle" /\ via = "depth" /\ calls < MaxCalls) =>
             ENABLED (\E page \in Pages : Call(page)))

\* the text of a page that took the depth return has been written, and
\* the page after it has been resolved
C14_Witness ==
    /\ pc = "returned"
    /\ via = "end"
    /\ exitCode = 0
    /\ \E w \in written : w[1] = PageTwoCycle /\ w[1] # html /\ HasInclude(w[2])

\* C15 (as claimed): whatever return statement build.js takes, the text it
\* returns holds no placeholder token.
C15_NoPlaceholderReturned ==
    (variant = "build" /\ pc = "returned") => ~HasPlaceholder(result)

\* C16: depth changes only at the test that opens a pass, by one (and is set
\* to 0 when a call starts), so a sweep leaves it alone however many
\* directives it replaces, and depth counts the passes; the depth return is
\* taken exactly after maxDepth + 1 sweeps; and a page of two or of twelve
\* sibling directives whose components hold no directive is resolved by one
\* replacing sweep, followed by the sweep that finds none.
C16_DepthCountsPasses ==
    /\ [][depth' # depth =>
             \/ pc = "do" /\ depth' = depth + 1
             \/ pc = "idle" /\ depth' = 0]_vars
    /\ [](pc \in {"while", "toplevel"} => depth = passes)
    /\ []((pc = "returned" /\ via = "depth") => passes = maxDepth + 1)
    /\ []((pc = "returned" /\ html \in {PageSiblings, PageTwelveSiblings}) =>
             /\ via = "end"
             /\ passes = 2
             /\ ~HasInclude(result))

\* the page of twelve sibling directives has been resolved
C16_Witness ==
    /\ pc = "returned"
    /\ html = PageTwelveSiblings
    /\ Len(result) = 12 * Len(kNestedOutput)

\* the pages that head a chain of includes, with the number of levels of the
\* chain
Chains ==
    {[page |-> PageSingle, levels |-> 1],
     [page |-> PageNested, levels |-> 2],
     [page |-> PageChain10, levels |-> 10],
     [page |-> PageChain11, levels |-> 11],
     [page |-> PageChain12, levels |-> 12]}

\* the number of sweeps of the call that replaced a directive: all of them
\* before the depth return, all but the last when the loop ended
ReplacingPasses == IF via = "depth" THEN passes ELSE passes - 1

\* a directive that stands in the text a sweep spliced in stands verbatim in
\* the text the sweep leaves
SplicedDirectivesLeft ==
    \A k \in 1..Len(events) :
        \A j \in 1..Len(events[k].replacement) :
            (events[k].readOk /\ includeRegex(events[k].replacement, j).ok) =>
                /\ includeRegex(processedHtml, events[k].outStart + j - 1).ok
                /\ includeRegex(processedHtml, events[k].outStart + j - 1).src
                     = includeRegex(events[k].replacement, j).src
                /\ prov[events[k].outStart + j - 1].pass = passes

\* every directive of the text before the sweep is replaced by the sweep
DirectivesBeforeExpanded ==
    \A i \in 1..Len(prevHtml) :
        includeRegex(prevHtml, i).ok =>
            \E k \in 1..Len(events) :
                events[k].start = i /\ events[k].src = includeRegex(prevHtml, i).src

\* C17 (as claimed): a chain of includes nested n levels deep takes exactly n
\* replacing passes.
C17_ChainTakesItsLevels ==
    pc = "returned" =>
        \A c \in Chains : html = c.page => ReplacingPasses = c.levels

\* C17 (amended): a directive spliced in by a sweep is left verbatim by that
\* sweep and is replaced by the next one; a chain of n levels takes n
\* replacing passes when n is at most maxDepth + 1, and maxDepth + 1 of them
\* before the depth return when it is deeper; the loop ends normally, after
\* one more pass that finds no directive, exactly when n is at most maxDepth.
C17_SplicedTextWaitsOnePass ==
    /\ pc = "while" => (SplicedDirectivesLeft /\ DirectivesBeforeExpanded)
    /\ pc = "returned" =>
          \A c \in Chains :
              html = c.page =>
                  /\ ReplacingPasses = IF c.levels <= maxDepth + 1 THEN c.levels ELSE maxDepth + 1
                  /\ (via = "end") <=> (c.levels <= maxDepth)
                  /\ via = "end" => passes = c.levels + 1

\* the second sweep over the page that includes A has replaced the directive
\* of B that the first sweep spliced in
C17_Witness ==
    /\ pc = "while"
    /\ html = PageNested
    /\ passes = 2
    /\ Len(events) = 1
    /\ events[1].src = <<"B", ".", "h", "t", "m", "l">>
    /\ ~HasInclude(processedHtml)

\* C18 (as claimed): whenever the maximum-depth error has been logged by the
\* call, the returned text holds at least one include directive.
C18_DepthErrorOnlyWhenIncomplete ==
    (pc = "returned" /\ errorLogged) => \E i \in 1..Len(result) : includeRegex(result, i).ok

====
